---- MODULE Spec2Model ----
(***************************************************************************)
(* Model of the paper-trading engine of warp-solana-bot.                   *)
(*                                                                         *)
(* Two near-duplicate implementations of PaperTradingBot exist:            *)
(*   "script" : src/paper-trading.ts       (class + mainnet runner)        *)
(*   "module" : src/unnamed/part_001       (exported class, lines 340-677) *)
(* A third bot keeps no balances at all:                                   *)
(*   "dry"    : src/dry-run-bot.ts         (DryRunBot)                     *)
(* cfg.impl selects which one a behaviour runs.                            *)
(*                                                                         *)
(* Units.  Quote amounts are integers in 1/100000 of the quote token       *)
(* (1 SOL = 100000).  Prices are in the same unit per token.  Price        *)
(* multipliers and slippage are in percent, profitPercent in hundredths of *)
(* a percent.  Time is in ticks of the event loop's clock.  The values in  *)
(* the input sets are chosen so that every division of the code is exact.  *)
(***************************************************************************)
EXTENDS Integers, Sequences, FiniteSets, TLC

VARIABLES
  cfg,               \* this.config (immutable after construction) + implementation
  paperBalances,     \* Map<string, PaperBalance>
  paperTrades,       \* PaperTrade[]
  totalPaperProfit,  \* running total profit
  tradeCounter,      \* id counter
  initialBalance,    \* set by initializePaperBalances
  timers,            \* pending setTimeout callbacks of executePaperBuy
  pending,           \* module impl: buy() calls suspended at an await
  now,               \* Date.now()
  opens,             \* pool events delivered so far
  log,               \* logger calls and outcome of the most recent handler
  tradingResults,    \* DryRunBot: this.tradingResults
  totalProfit,       \* DryRunBot: this.totalProfit
  totalTrades,       \* DryRunBot: this.totalTrades
  successfulTrades,  \* DryRunBot: this.successfulTrades
  dryTimers,         \* DryRunBot: pending setTimeout callbacks
  txExecuted,        \* transactions handed to this.txExecutor of the base Bot
  env,               \* EnvTestValidator: the .env file of the validate() call
  result,            \* EnvTestValidator: this.result
  walletFunds,       \* EnvTestValidator: position of the validateWalletFunds call
  printed,           \* EnvTestValidator: the result as printResults saw it
  resolved,          \* EnvTestValidator: the result as the promise of validate() delivered it
  exitCode           \* EnvTestValidator: process.exit of the command-line runner

vars == <<cfg, paperBalances, paperTrades, totalPaperProfit, tradeCounter,
          initialBalance, timers, pending, now, opens, log,
          tradingResults, totalProfit, totalTrades, successfulTrades, dryTimers,
          txExecuted, env, result, walletFunds, printed, resolved, exitCode>>

ledgers == <<paperBalances, paperTrades, totalPaperProfit, tradeCounter>>

\* the state of PaperTradingBot and the state of DryRunBot
paper == <<paperBalances, paperTrades, totalPaperProfit, tradeCounter,
           initialBalance, timers, pending>>

dryRun == <<tradingResults, totalProfit, totalTrades, successfulTrades, dryTimers>>

\* the state of EnvTestValidator and of its command-line runner
validator == <<env, result, walletFunds, printed, resolved, exitCode>>

----------------------------------------------------------------------------
(* Bounds of the model *)

MaxOpens == 2
MaxTime == 1
MaxResults == 3                   \* DryRunBot: external sells stop at this length

(* Input sets *)

Mints == {"mintA", "mintB"}
NoMint == "undefined"             \* poolState.baseMint of a malformed event
PoolMints == Mints \cup {NoMint}
SnipeList == {"mintA"}            \* snipeListCache.isInList
Symbols == {"SOL", "USDC", "WSOL", "undefined"}
QuoteAmounts == {100000}              \* QUOTE_AMOUNT = 1
SellSlippages == {0, 2, 100}
AutoSellDelays == {1}
AutoBuyDelays == {0, 1}
Prices == {50, 100}               \* Math.random() * 0.001 + 0.0001
UDraws == {400, 700, 999}         \* Math.random() in thousandths
RDraws == {1}                     \* in-bucket Math.random() in halves

FakeMints == {"FAKEa"}            \* `FAKE${Math.random().toString(36)...}`
DryPrices == {40, 80}             \* Math.random() * 0.001
DryMultipliers == {50, 100, 250}  \* 0.5 + Math.random() * 2.5, in percent
DryHold == 1                      \* the 5000 ms hold, in ticks
DryJitters == {0, 1}              \* Math.random() * 10000 ms, in ticks

Impls == {"script", "module"}      \* the two PaperTradingBot sources

----------------------------------------------------------------------------
(* Configuration *)

\* The script never reads useSnipeList or autoBuyDelay in buy().  The USDC
\* book, which funds every Open of a run, and the book of a config without a
\* quote symbol are explored at the typical slippage.
Configs ==
  { c \in [impl : Impls, symbol : Symbols, quoteAmount : QuoteAmounts,
           autoSell : BOOLEAN, autoSellDelay : AutoSellDelays,
           useSnipeList : BOOLEAN, autoBuyDelay : AutoBuyDelays,
           sellSlippage : SellSlippages] :
      /\ c.impl = "script" => (~c.useSnipeList /\ c.autoBuyDelay = 0)
      /\ c.symbol \in {"USDC", "undefined"} => c.sellSlippage = 2 }

\* DryRunBot reads quoteAmount and autoSell only.
DryConfigs ==
  [impl : {"dry"}, symbol : {"SOL"}, quoteAmount : QuoteAmounts,
   autoSell : BOOLEAN, autoSellDelay : AutoSellDelays,
   useSnipeList : {FALSE}, autoBuyDelay : {0}, sellSlippage : {2}]

\* const symbol = this.config.quoteToken.symbol || 'SOL'   (script)
\* this.config.quoteToken.symbol                            (module)
QuoteKey(c) ==
  IF c.impl = "script" /\ c.symbol = "undefined" THEN "SOL" ELSE c.symbol

\* initializePaperBalances
InitialEntry(c) ==
  IF QuoteKey(c) = "USDC"
    THEN [key |-> "USDC", amount |-> 10000000, symbol |-> "USDC"]
    ELSE [key |-> "SOL", amount |-> 100000, symbol |-> "SOL"]

\* `TOKEN_${tokenMint.substring(0, 8)}` (model mints are shorter than 8 chars)
TokenSymbol(m) ==
  CASE m = "mintA" -> "TOKEN_mintA"
    [] m = "mintB" -> "TOKEN_mintB"

TradeIdFromClock(n, t) == <<"trade", 0, t>>

\* `trade_${++this.tradeCounter}_${Date.now()}`
TradeId(n, t) == <<"trade", n, t>>

\* `sell_${buyTradeId}`
SellId(id) == <<"sell">> \o id

----------------------------------------------------------------------------
(* Map helpers *)

Has(bal, k) == k \in DOMAIN bal

MapSet(bal, k, v) == (k :> v) @@ bal

MapDelete(bal, k) == [x \in DOMAIN bal \ {k} |-> bal[x]]

\* multiset of suspended calls: a function from the call's state to its count
BagAdd(b, x) == IF x \in DOMAIN b THEN [b EXCEPT ![x] = @ + 1] ELSE (x :> 1) @@ b

BagRemove(b, x) ==
  IF b[x] > 1 THEN [b EXCEPT ![x] = @ - 1] ELSE [y \in DOMAIN b \ {x} |-> b[y]]

UnshiftTrade(trades, t) == <<t>> \o trades

\* this.paperTrades.push(trade)
PushTrade(trades, t) == Append(trades, t)

\* Array.prototype.slice(-n)
Slice(trades, n) ==
  SubSeq(trades, IF Len(trades) > n THEN Len(trades) - n + 1 ELSE 1, Len(trades))

\* Array.prototype.find over indices: the first index in S, 0 if none
FirstIndex(S) == IF S = {} THEN 0 ELSE CHOOSE i \in S : \A j \in S : i <= j

----------------------------------------------------------------------------
(* simulatePriceMovement: multiplier in percent from the uniform draw u    *)
(* (thousandths) and the in-bucket draw r (halves).                        *)

ScenariosSkewed(impl) ==
  << [probability |-> 450, lo |-> 10,  width |-> 40],
     [probability |-> 250, lo |-> 70,  width |-> 60],
     [probability |-> 200, lo |-> 130, width |-> 170],
     [probability |-> 100, lo |-> 300, width |-> 1200] >>

Scenarios(impl) ==
  IF impl = "script"
    THEN << [probability |-> 400, lo |-> 10,  width |-> 40],
            [probability |-> 300, lo |-> 70,  width |-> 60],
            [probability |-> 200, lo |-> 130, width |-> 170],
            [probability |-> 100, lo |-> 300, width |-> 1200] >>
    ELSE << [probability |-> 400, lo |-> 30,  width |-> 40],
            [probability |-> 300, lo |-> 80,  width |-> 40],
            [probability |-> 200, lo |-> 120, width |-> 80],
            [probability |-> 100, lo |-> 200, width |-> 800] >>

RECURSIVE ScenarioLoopStrict(_, _, _, _, _)
ScenarioLoopStrict(sc, i, cumulativeProbability, u, r) ==
  IF i > Len(sc) THEN 100
  ELSE LET cum == cumulativeProbability + sc[i].probability IN
       IF u < cum THEN sc[i].lo + (r * sc[i].width) \div 2
       ELSE ScenarioLoopStrict(sc, i + 1, cum, u, r)

RECURSIVE ScenarioLoop(_, _, _, _, _)
ScenarioLoop(sc, i, cumulativeProbability, u, r) ==
  IF i > Len(sc) THEN 100
  ELSE LET cum == cumulativeProbability + sc[i].probability IN
       IF u <= cum THEN sc[i].lo + (r * sc[i].width) \div 2
       ELSE ScenarioLoop(sc, i + 1, cum, u, r)

SimulatePriceMovement(impl, u, r) == ScenarioLoop(Scenarios(impl), 1, 0, u, r)

----------------------------------------------------------------------------
(* Log records *)

LogInsufficient == [level |-> "warn", msg |-> "Insufficient balance for buy"]
LogBuy(id) == [level |-> "info", msg |-> "BUY executed", tradeId |-> id]
LogBuyFailed == [level |-> "error", msg |-> "Failed to execute paper buy"]
LogCannotSell == [level |-> "warn", msg |-> "Cannot sell"]
LogSell(m) == [level |-> "info", msg |-> "SELL executed", mint |-> m]
LogSellFailed == [level |-> "error", msg |-> "Failed to execute paper sell"]
LogNotInSnipeList == [level |-> "debug", msg |-> "token is not in a snipe list"]
LogWaiting == [level |-> "debug", msg |-> "Waiting before buy"]
LogMarketNotFound == [level |-> "debug", msg |-> "Market not found, skipping"]
LogNoFilterMatch == [level |-> "trace", msg |-> "pool doesn't match filters"]
\* the handler's promise rejects: the exception leaves buy()
Thrown == [level |-> "throw", msg |-> "TypeError"]

----------------------------------------------------------------------------
Init ==
  /\ cfg \in Configs \cup DryConfigs
  /\ paperBalances =
       LET e == InitialEntry(cfg) IN
       (e.key :> [token |-> "quoteMint", amount |-> e.amount, symbol |-> e.symbol])
  /\ initialBalance = InitialEntry(cfg).amount
  /\ paperTrades = <<>>
  /\ totalPaperProfit = 0
  /\ tradeCounter = 0
  /\ timers = {}
  /\ pending = <<>>
  /\ now = 0
  /\ opens = 0
  /\ log = <<>>
  /\ tradingResults = <<>>
  /\ totalProfit = 0
  /\ totalTrades = 0
  /\ successfulTrades = 0
  /\ dryTimers = {}
  /\ txExecuted = 0
  /\ env = <<>>
  /\ result = [valid |-> TRUE, errors |-> <<>>, warnings |-> <<>>, info |-> <<>>]
  /\ walletFunds = "idle"
  /\ printed = <<>>
  /\ resolved = <<>>
  /\ exitCode = <<>>

----------------------------------------------------------------------------
(* executePaperBuy *)

InsufficientFundsNonStrict(bal, key, quoteAmount) ==
  ~Has(bal, key) \/ bal[key].amount <= quoteAmount

InsufficientFundsUnchecked(bal, key, quoteAmount) == ~Has(bal, key)

\* if (!quoteBalance || quoteBalance.amount < quoteAmount)
InsufficientFunds(bal, key, quoteAmount) ==
  ~Has(bal, key) \/ bal[key].amount < quoteAmount

TokenAmountAtFixedPrice(quoteAmount, price) == quoteAmount \div 100

\* const tokenAmount = quoteAmount / simulatedPrice
TokenAmount(quoteAmount, price) == quoteAmount \div price

\* quoteBalance?.amount || 0, as printed by the rejection log
QuoteBalance(bal, key) == IF Has(bal, key) THEN bal[key].amount ELSE 0

\* quoteBalance.amount -= quoteAmount
Debit(bal, key, quoteAmount) == [bal EXCEPT ![key].amount = @ - quoteAmount]

\* this.paperBalances.set(tokenMint, {token, amount, symbol})
SetTokenBalance(bal, m, tokenAmount) ==
  MapSet(bal, m, [token |-> m, amount |-> tokenAmount, symbol |-> TokenSymbol(m)])

BuyTrade(id, m, quoteAmount, tokenAmount, price, t) ==
  [id |-> id, action |-> "buy", token |-> m, tokenSymbol |-> TokenSymbol(m),
   quoteAmount |-> quoteAmount, tokenAmount |-> tokenAmount, price |-> price,
   timestamp |-> t]

\* setTimeout delay: autoSellDelay + Math.random() * 10000 (script),
\* autoSellDelay (module); the jitter is 0 or 1 tick
Jitters(impl) == IF impl = "script" THEN {0, 1} ELSE {0}

ArmDueNow(ts, c, m, id, t, jitter) ==
  IF c.autoSell
    THEN ts \cup {[token |-> m, buyId |-> id, armedAt |-> t, due |-> t]}
    ELSE ts

ArmAlways(ts, c, m, id, t, jitter) ==
  ts \cup {[token |-> m, buyId |-> id, armedAt |-> t,
            due |-> t + c.autoSellDelay + jitter]}

\* if (this.config.autoSell) setTimeout(() => executePaperSell(tokenMint, tradeId), delay)
Arm(ts, c, m, id, t, jitter) ==
  IF c.autoSell
    THEN ts \cup {[token |-> m, buyId |-> id, armedAt |-> t,
                   due |-> t + c.autoSellDelay + jitter]}
    ELSE ts

ExecutePaperBuy(m, price, jitter) ==
  LET key == QuoteKey(cfg)
      quoteAmount == cfg.quoteAmount
      tokenAmount == TokenAmount(quoteAmount, price)
      tradeId == TradeId(tradeCounter + 1, now)
  IN
  IF InsufficientFunds(paperBalances, key, quoteAmount)
    THEN /\ log' = <<LogInsufficient>>
         /\ UNCHANGED <<paperBalances, paperTrades, totalPaperProfit,
                        tradeCounter, timers>>
  ELSE IF m = NoMint
    THEN \* poolState.baseMint.toString() throws after the counter and the debit
         /\ tradeCounter' = tradeCounter + 1
         /\ paperBalances' = Debit(paperBalances, key, quoteAmount)
         /\ log' = <<LogBuyFailed>>
         /\ UNCHANGED <<paperTrades, totalPaperProfit, timers>>
  ELSE /\ tradeCounter' = tradeCounter + 1
       /\ paperBalances' =
            SetTokenBalance(Debit(paperBalances, key, quoteAmount), m, tokenAmount)
       /\ paperTrades' =
            PushTrade(paperTrades,
                      BuyTrade(tradeId, m, quoteAmount, tokenAmount, price, now))
       /\ timers' = Arm(timers, cfg, m, tradeId, now, jitter)
       /\ log' = <<LogBuy(tradeId)>>
       /\ UNCHANGED totalPaperProfit

----------------------------------------------------------------------------
(* executePaperSell *)

\* this.paperTrades.find(t => t.id === buyTradeId && t.action === 'buy')
FindBuyTrade(trades, buyTradeId) ==
  FirstIndex({i \in 1..Len(trades) :
                trades[i].id = buyTradeId /\ trades[i].action = "buy"})

\* if (!tokenBalance || !buyTrade) return
CannotSell(bal, trades, m, buyTradeId) ==
  ~Has(bal, m) \/ FindBuyTrade(trades, buyTradeId) = 0

\* quoteAmountReceived * slippageMultiplier
\* buyTrade.price * priceMultiplier
NewPrice(buyPrice, mult) == (buyPrice * mult) \div 100

FinalQuoteAmountBeforeSlippage(tokenAmount, buyPrice, mult, slippage) ==
  tokenAmount * NewPrice(buyPrice, mult)

\* tokenBalance.amount * newPrice * (1 - sellSlippage / 100)
FinalQuoteAmount(tokenAmount, buyPrice, mult, slippage) ==
  (tokenAmount * NewPrice(buyPrice, mult) * (100 - slippage)) \div 100

\* (profit / buyTrade.quoteAmount) * 100, in hundredths of a percent
ProfitPercent(profit, quoteAmount) == (profit * 100) \div (quoteAmount \div 100)

SellTradeUnderBuyId(buyTrade, m, finalQuoteAmount, tokenAmount, newPrice, profit, t) ==
  [id |-> buyTrade.id, action |-> "sell", token |-> m,
   tokenSymbol |-> buyTrade.tokenSymbol, quoteAmount |-> finalQuoteAmount,
   tokenAmount |-> tokenAmount, price |-> newPrice, timestamp |-> t,
   profit |-> profit,
   profitPercent |-> ProfitPercent(profit, buyTrade.quoteAmount)]

SellTrade(buyTrade, m, finalQuoteAmount, tokenAmount, newPrice, profit, t) ==
  [id |-> SellId(buyTrade.id), action |-> "sell", token |-> m,
   tokenSymbol |-> buyTrade.tokenSymbol, quoteAmount |-> finalQuoteAmount,
   tokenAmount |-> tokenAmount, price |-> newPrice, timestamp |-> t,
   profit |-> profit,
   profitPercent |-> ProfitPercent(profit, buyTrade.quoteAmount)]

SettleKeepingEntry(bal, key, m, finalQuoteAmount) ==
  [bal EXCEPT ![key].amount = @ + finalQuoteAmount]

SettleDeletingQuote(bal, key, m, finalQuoteAmount) ==
  MapDelete(MapDelete(bal, key), m)

SettleClearingPositions(bal, key, m, finalQuoteAmount) ==
  [x \in {key} |-> [bal[key] EXCEPT !.amount = @ + finalQuoteAmount]]

\* quoteBalance.amount += finalQuoteAmount; this.paperBalances.delete(tokenMint)
Settle(bal, key, m, finalQuoteAmount) ==
  MapDelete([bal EXCEPT ![key].amount = @ + finalQuoteAmount], m)

AddProfitOverwriting(total, profit) == profit

\* this.totalPaperProfit += profit
AddProfit(total, profit) == total + profit

ExecutePaperSell(m, buyTradeId, mult) ==
  IF CannotSell(paperBalances, paperTrades, m, buyTradeId)
    THEN /\ log' = <<LogCannotSell>>
         /\ UNCHANGED ledgers
  ELSE LET key == QuoteKey(cfg)
           buyTrade == paperTrades[FindBuyTrade(paperTrades, buyTradeId)]
           tokenAmount == paperBalances[m].amount
           finalQuoteAmount ==
             FinalQuoteAmount(tokenAmount, buyTrade.price, mult, cfg.sellSlippage)
           profit == finalQuoteAmount - buyTrade.quoteAmount
       IN
       IF ~Has(paperBalances, key)
         THEN \* this.paperBalances.get(symbol)! is undefined: TypeError, caught
              /\ log' = <<LogSellFailed>>
              /\ UNCHANGED ledgers
       ELSE /\ paperBalances' = Settle(paperBalances, key, m, finalQuoteAmount)
            /\ totalPaperProfit' = AddProfit(totalPaperProfit, profit)
            /\ paperTrades' =
                 PushTrade(paperTrades,
                           SellTrade(buyTrade, m, finalQuoteAmount, tokenAmount,
                                     NewPrice(buyTrade.price, mult), profit, now))
            /\ UNCHANGED tradeCounter
            /\ log' = <<LogSell(m)>>

----------------------------------------------------------------------------
(* Handlers *)

BuyScriptThroughBot(m) ==
  /\ cfg.impl = "script"
  /\ opens < MaxOpens
  /\ opens' = opens + 1
  /\ txExecuted' = txExecuted + 1
  /\ \E price \in Prices, jitter \in Jitters(cfg.impl) :
       ExecutePaperBuy(m, price, jitter)
  /\ UNCHANGED <<cfg, validator, initialBalance, pending, now, dryRun>>

\* script: buy(accountId, poolState) awaits executePaperBuy, which never suspends
BuyScript(m) ==
  /\ cfg.impl = "script"
  /\ opens < MaxOpens
  /\ opens' = opens + 1
  /\ \E price \in Prices, jitter \in Jitters(cfg.impl) :
       ExecutePaperBuy(m, price, jitter)
  /\ UNCHANGED <<cfg, txExecuted, validator, initialBalance, pending, now, dryRun>>

\* the setTimeout callback of executePaperBuy fires
TimerFires(tm) ==
  /\ tm \in timers
  /\ now >= tm.due
  /\ timers' = timers \ {tm}
  /\ \E u \in UDraws, r \in RDraws :
       ExecutePaperSell(tm.token, tm.buyId, SimulatePriceMovement(cfg.impl, u, r))
  /\ UNCHANGED <<cfg, txExecuted, validator, initialBalance, pending, now, opens, dryRun>>

\* script: the first buy of the token with no sell of the derived id
FindUnmatchedBuy(trades, m) ==
  FirstIndex({i \in 1..Len(trades) :
                /\ trades[i].token = m
                /\ trades[i].action = "buy"
                /\ ~\E j \in 1..Len(trades) : trades[j].id = SellId(trades[i].id)})

\* module: this.paperTrades.find(t => t.token === tokenMint && t.action === 'buy')
FindFirstBuy(trades, m) ==
  FirstIndex({i \in 1..Len(trades) :
                trades[i].token = m /\ trades[i].action = "buy"})

\* script: sell(accountId, rawAccount)
SellScript(m) ==
  /\ cfg.impl = "script"
  /\ IF m = NoMint
       THEN \* rawAccount.mint.toString() throws: sell() has no try block
            log' = <<Thrown>> /\ UNCHANGED ledgers
     ELSE IF Has(paperBalances, m) /\ FindUnmatchedBuy(paperTrades, m) # 0
       THEN \E u \in UDraws, r \in RDraws :
              ExecutePaperSell(m, paperTrades[FindUnmatchedBuy(paperTrades, m)].id,
                               SimulatePriceMovement(cfg.impl, u, r))
       ELSE log' = <<>> /\ UNCHANGED ledgers
  /\ UNCHANGED <<cfg, txExecuted, validator, initialBalance, timers, pending, now, opens, dryRun>>

\* module: sell(accountId, rawAccount)
SellModule(m) ==
  /\ cfg.impl = "module"
  /\ IF m = NoMint
       THEN \* rawAccount.mint.toString() throws: sell() has no try block
            log' = <<Thrown>> /\ UNCHANGED ledgers
     ELSE IF FindFirstBuy(paperTrades, m) # 0
       THEN \E u \in UDraws, r \in RDraws :
              ExecutePaperSell(m, paperTrades[FindFirstBuy(paperTrades, m)].id,
                               SimulatePriceMovement(cfg.impl, u, r))
       ELSE log' = <<>> /\ UNCHANGED ledgers
  /\ UNCHANGED <<cfg, txExecuted, validator, initialBalance, timers, pending, now, opens, dryRun>>

\* module: buy(accountId, poolState) up to its first await
BuyModule(m) ==
  /\ cfg.impl = "module"
  /\ opens < MaxOpens
  /\ opens' = opens + 1
  /\ IF cfg.useSnipeList /\ m = NoMint
       THEN \* poolState.baseMint.toString() throws outside the try block
            log' = <<Thrown>> /\ UNCHANGED pending
     ELSE IF cfg.useSnipeList /\ m \notin SnipeList
       THEN log' = <<LogNotInSnipeList>> /\ UNCHANGED pending
     ELSE IF cfg.autoBuyDelay > 0
       THEN /\ pending' = BagAdd(pending, [mint |-> m, pc |-> "delay"])
            /\ log' = <<LogWaiting>>
     ELSE /\ pending' = BagAdd(pending, [mint |-> m, pc |-> "market"])
          /\ log' = <<>>
  /\ UNCHANGED <<cfg, txExecuted, validator, paperBalances, paperTrades, totalPaperProfit, tradeCounter,
                 initialBalance, timers, now, dryRun>>

\* module: await new Promise(resolve => setTimeout(resolve, autoBuyDelay)) resumes
\* and the call suspends at await Promise.all([this.marketStorage.get(...)])
BuyAfterDelay(c) ==
  /\ c \in DOMAIN pending
  /\ c.pc = "delay"
  /\ pending' = BagAdd(BagRemove(pending, c), [c EXCEPT !.pc = "market"])
  /\ log' = <<>>
  /\ UNCHANGED <<cfg, txExecuted, validator, paperBalances, paperTrades, totalPaperProfit, tradeCounter,
                 initialBalance, timers, now, opens, dryRun>>

\* module: the market lookup resumes
BuyAfterMarket(c, market) ==
  /\ c \in DOMAIN pending
  /\ c.pc = "market"
  /\ IF ~market
       THEN \* on a malformed event the log call and then the catch block throw
            /\ pending' = BagRemove(pending, c)
            /\ log' = IF c.mint = NoMint THEN <<Thrown>> ELSE <<LogMarketNotFound>>
            /\ UNCHANGED <<paperBalances, paperTrades, totalPaperProfit,
                           tradeCounter, timers>>
     ELSE IF ~cfg.useSnipeList
       THEN \* await this.filterMatch(poolKeys)
            /\ pending' = BagAdd(BagRemove(pending, c), [c EXCEPT !.pc = "filter"])
            /\ log' = <<>>
            /\ UNCHANGED <<paperBalances, paperTrades, totalPaperProfit,
                           tradeCounter, timers>>
     ELSE /\ pending' = BagRemove(pending, c)
          /\ \E price \in Prices, jitter \in Jitters(cfg.impl) :
               ExecutePaperBuy(c.mint, price, jitter)
  /\ UNCHANGED <<cfg, txExecuted, validator, initialBalance, now, opens, dryRun>>

\* module: filterMatch resumes with its result
BuyAfterFilter(c, match) ==
  /\ c \in DOMAIN pending
  /\ c.pc = "filter"
  /\ pending' = BagRemove(pending, c)
  /\ IF ~match
       THEN \* on a malformed event the log call and then the catch block throw
            /\ log' = IF c.mint = NoMint THEN <<Thrown>> ELSE <<LogNoFilterMatch>>
            /\ UNCHANGED <<paperBalances, paperTrades, totalPaperProfit,
                           tradeCounter, timers>>
       ELSE \E price \in Prices, jitter \in Jitters(cfg.impl) :
              ExecutePaperBuy(c.mint, price, jitter)
  /\ UNCHANGED <<cfg, txExecuted, validator, initialBalance, now, opens, dryRun>>

----------------------------------------------------------------------------
(* Reporting.  Rates are carried in hundredths of a percent.               *)

\* this.paperTrades.filter(t => t.action === 'sell')
CompletedTrades(trades) == SelectSeq(trades, LAMBDA t : t.action = "sell")

WinningTradesOrFlat(completedTrades) ==
  SelectSeq(completedTrades, LAMBDA t : t.profit >= 0)

\* completedTrades.filter(t => t.profit! > 0)
WinningTrades(completedTrades) ==
  SelectSeq(completedTrades, LAMBDA t : t.profit > 0)

\* completed > 0 ? (winning / completed) * 100 : 0, to the nearest hundredth
WinRate(winning, completed) ==
  IF completed > 0
    THEN (2 * winning * 10000 + completed) \div (2 * completed)
    ELSE 0

\* ((currentBalance - this.initialBalance) / this.initialBalance) * 100
TotalReturn(currentBalance, initial) ==
  ((currentBalance - initial) * 100) \div (initial \div 100)

\* the object getPaperTradingResults returns; printSummary of the script
\* computes the same values inline
PaperTradingResults ==
  LET completedTrades == CompletedTrades(paperTrades)
      winningTrades == WinningTrades(completedTrades)
      currentBalance == QuoteBalance(paperBalances, QuoteKey(cfg))
  IN
  [totalTrades |-> Len(SelectSeq(paperTrades, LAMBDA t : t.action = "buy")),
   completedTrades |-> Len(completedTrades),
   winningTrades |-> Len(winningTrades),
   winRate |-> WinRate(Len(winningTrades), Len(completedTrades)),
   totalProfit |-> totalPaperProfit,
   currentBalance |-> currentBalance,
   initialBalance |-> initialBalance,
   totalReturn |-> TotalReturn(currentBalance, initialBalance),
   trades |-> paperTrades,
   balances |-> {paperBalances[k] : k \in DOMAIN paperBalances}]

\* the value a call returns to its caller
Returned(value) == [level |-> "return", msg |-> "results", value |-> value]

\* the lines between the summary banners, recentCount trades of activity
LogSummary(results, symbol, recentCount) ==
  [level |-> "info", msg |-> "PAPER TRADING SUMMARY",
   currentBalance |-> results.currentBalance,
   totalReturn |-> results.totalReturn,
   totalTrades |-> results.totalTrades,
   completed |-> results.completedTrades,
   winRate |-> results.winRate,
   totalProfit |-> results.totalProfit,
   openPositions |-> Cardinality({b \in results.balances : b.symbol # symbol}),
   recentActivity |-> Slice(results.trades, recentCount)]

PrintSummarySplicing ==
  /\ cfg.impl = "script"
  /\ log' = <<LogSummary(PaperTradingResults, QuoteKey(cfg), 3)>>
  /\ paperTrades' = SubSeq(paperTrades, 1, Len(paperTrades) - Len(Slice(paperTrades, 3)))
  /\ UNCHANGED <<cfg, txExecuted, validator, paperBalances, totalPaperProfit, tradeCounter,
                 initialBalance, timers, pending, now, opens, dryRun>>

\* script: printSummary()
PrintSummary ==
  /\ cfg.impl = "script"
  /\ log' = <<LogSummary(PaperTradingResults, QuoteKey(cfg), 3)>>
  /\ UNCHANGED <<cfg, txExecuted, validator, paper, now, opens, dryRun>>

\* module: getPaperTradingResults()
GetPaperTradingResults ==
  /\ cfg.impl = "module"
  /\ log' = <<Returned(PaperTradingResults)>>
  /\ UNCHANGED <<cfg, txExecuted, validator, paper, now, opens, dryRun>>

\* module: printPaperTradingSummary()
PrintPaperTradingSummary ==
  /\ cfg.impl = "module"
  /\ log' = <<LogSummary(PaperTradingResults, QuoteKey(cfg), 5)>>
  /\ UNCHANGED <<cfg, txExecuted, validator, paper, now, opens, dryRun>>

----------------------------------------------------------------------------
(* DryRunBot.  Amounts, prices and the profit field are in 1/100000.       *)

LogDryBuy(m) == [level |-> "info", msg |-> "Simulated buy executed", mint |-> m]
LogDryWouldSell(m) == [level |-> "info", msg |-> "Would sell token", mint |-> m]
LogDrySell(m) == [level |-> "info", msg |-> "Simulated sell executed", mint |-> m]

DryBuyRecord(m, amount, price, t) ==
  [action |-> "buy", token |-> m, amount |-> amount, price |-> price,
   timestamp |-> t]

\* ((sellPrice - buyPrice) / buyPrice) * 100
DryProfitPercent(sellPrice, buyPrice) ==
  ((sellPrice - buyPrice) * 10000000) \div buyPrice

\* the sell record: its profit field holds profitPercent
DrySellRecord(m, sellPrice, profitPercent, t) ==
  [action |-> "sell", token |-> m, amount |-> sellPrice, price |-> sellPrice,
   timestamp |-> t, profit |-> profitPercent]

\* if (this.config.autoSell) setTimeout(() => this.simulateSell(mint, simulatedPrice), delay)
DryArm(ts, c, m, price, n, due) ==
  IF c.autoSell
    THEN ts \cup {[token |-> m, buyPrice |-> price, seq |-> n, due |-> due]}
    ELSE ts

\* the body shared by buy() and simulateBuy()
SimulateBuy(m, price, delay) ==
  /\ tradingResults' =
       Append(tradingResults, DryBuyRecord(m, cfg.quoteAmount, price, now))
  /\ totalTrades' = totalTrades + 1
  /\ successfulTrades' = successfulTrades + 1
  /\ dryTimers' = DryArm(dryTimers, cfg, m, price, totalTrades + 1, now + delay)
  /\ log' = <<LogDryBuy(m)>>
  /\ UNCHANGED totalProfit

\* buy(accountId, poolState)
DryBuy(m) ==
  /\ cfg.impl = "dry"
  /\ opens < MaxOpens
  /\ opens' = opens + 1
  /\ IF m = NoMint
       THEN \* poolState.baseMint.toString() throws in the first log call
            log' = <<Thrown>> /\ UNCHANGED dryRun
       ELSE \E price \in DryPrices : SimulateBuy(m, price, DryHold)
  /\ UNCHANGED <<cfg, txExecuted, validator, paper, now>>

\* the setInterval callback draws below 0.3: simulateTokenLaunch()
SimulateTokenLaunch ==
  /\ cfg.impl = "dry"
  /\ opens < MaxOpens
  /\ opens' = opens + 1
  /\ \E m \in FakeMints, price \in DryPrices, jitter \in DryJitters :
       SimulateBuy(m, price, DryHold + jitter)
  /\ UNCHANGED <<cfg, txExecuted, validator, paper, now>>

SimulateSell(m, buyPrice, mult) ==
  LET sellPrice == (buyPrice * mult) \div 100
      profit == sellPrice - buyPrice
  IN
  /\ tradingResults' =
       Append(tradingResults,
              DrySellRecord(m, sellPrice, DryProfitPercent(sellPrice, buyPrice), now))
  /\ totalProfit' = totalProfit + profit
  /\ log' = <<LogDrySell(m)>>
  /\ UNCHANGED <<totalTrades, successfulTrades>>

\* the setTimeout callback of buy() or simulateBuy() fires
DryTimerFires(tm) ==
  /\ cfg.impl = "dry"
  /\ tm \in dryTimers
  /\ now >= tm.due
  /\ dryTimers' = dryTimers \ {tm}
  /\ \E mult \in DryMultipliers : SimulateSell(tm.token, tm.buyPrice, mult)
  /\ UNCHANGED <<cfg, txExecuted, validator, paper, now, opens>>

\* this.tradingResults.find(r => r.token === mint && r.action === 'buy')
FindBuyRecord(results, m) ==
  FirstIndex({i \in 1..Len(results) :
                results[i].token = m /\ results[i].action = "buy"})

\* sell(accountId, rawAccount)
DrySell(m) ==
  /\ cfg.impl = "dry"
  /\ Len(tradingResults) < MaxResults
  /\ IF m = NoMint
       THEN \* rawAccount.mint.toString() throws in the first log call
            log' = <<Thrown>> /\ UNCHANGED <<tradingResults, totalProfit,
                                              totalTrades, successfulTrades>>
     ELSE IF FindBuyRecord(tradingResults, m) # 0
       THEN \E mult \in DryMultipliers :
              SimulateSell(m, tradingResults[FindBuyRecord(tradingResults, m)].price,
                           mult)
       ELSE log' = <<LogDryWouldSell(m)>>
            /\ UNCHANGED <<tradingResults, totalProfit, totalTrades, successfulTrades>>
  /\ UNCHANGED <<cfg, txExecuted, validator, paper, now, opens, dryTimers>>

\* the object getResults returns
DryResults ==
  LET winningTrades ==
        Len(SelectSeq(tradingResults,
                      LAMBDA r : "profit" \in DOMAIN r /\ r.profit # 0 /\ r.profit > 0))
      totalCompletedTrades ==
        Len(SelectSeq(tradingResults, LAMBDA r : r.action = "sell"))
  IN
  [totalTrades |-> totalTrades,
   successfulTrades |-> successfulTrades,
   totalProfit |-> totalProfit,
   results |-> tradingResults,
   winRate |-> WinRate(winningTrades, totalCompletedTrades),
   completedTrades |-> totalCompletedTrades]

\* getResults()
GetResults ==
  /\ cfg.impl = "dry"
  /\ log' = <<Returned(DryResults)>>
  /\ UNCHANGED <<cfg, txExecuted, validator, paper, now, opens, dryRun>>

\* the clock advances; past MaxTime only while an armed timer is not yet due
Tick ==
  /\ \/ now < MaxTime
     \/ \E tm \in timers : tm.due > now
     \/ \E tm \in dryTimers : tm.due > now
  /\ now' = now + 1
  /\ UNCHANGED <<cfg, txExecuted, validator, paperBalances, paperTrades, totalPaperProfit, tradeCounter,
                 initialBalance, timers, pending, opens, log, dryRun>>

Next ==
  \/ \E m \in PoolMints : BuyScript(m)
  \/ \E m \in PoolMints : BuyModule(m)
  \/ \E c \in DOMAIN pending : BuyAfterDelay(c)
  \/ \E c \in DOMAIN pending, market \in BOOLEAN : BuyAfterMarket(c, market)
  \/ \E c \in DOMAIN pending, match \in BOOLEAN : BuyAfterFilter(c, match)
  \/ \E tm \in timers : TimerFires(tm)
  \/ \E m \in PoolMints : SellScript(m)
  \/ \E m \in PoolMints : SellModule(m)
  \/ PrintSummary
  \/ GetPaperTradingResults
  \/ PrintPaperTradingSummary
  \/ \E m \in PoolMints : DryBuy(m)
  \/ SimulateTokenLaunch
  \/ \E tm \in dryTimers : DryTimerFires(tm)
  \/ \E m \in PoolMints \cup FakeMints : DrySell(m)
  \/ GetResults
  \/ Tick

Spec == Init /\ [][Next]_vars

\* The event loop runs every due timer and resumes every settled await, and
\* time passes.
FairSpec ==
  /\ Spec
  /\ WF_vars(Tick)
  /\ WF_vars(\E tm \in timers : TimerFires(tm))
  /\ WF_vars(\E tm \in dryTimers : DryTimerFires(tm))
  /\ WF_vars(\E c \in DOMAIN pending : BuyAfterDelay(c))
  /\ WF_vars(\E c \in DOMAIN pending, market \in BOOLEAN : BuyAfterMarket(c, market))
  /\ WF_vars(\E c \in DOMAIN pending, match \in BOOLEAN : BuyAfterFilter(c, match))

----------------------------------------------------------------------------
(* simulatePriceMovement on its own: every uniform draw of the grid and    *)
(* both in-bucket draws, in a freshly constructed paper bot.               *)

SimUDraws == 0..999               \* Math.random() in [0, 1), in thousandths
SimRDraws == {0, 1}               \* in-bucket Math.random(): 0 and 0.5

SimConfigs ==
  {c \in Configs : /\ c.symbol = "SOL" /\ c.sellSlippage = 2 /\ c.autoSell
                   /\ ~c.useSnipeList /\ c.autoBuyDelay = 0}

SimInit == Init /\ cfg \in SimConfigs

\* one call of simulatePriceMovement with the draws u and r
SimulatePrice(u, r) ==
  /\ log' = <<[level |-> "return", msg |-> "multiplier", random |-> u, draw |-> r,
               value |-> SimulatePriceMovement(cfg.impl, u, r)]>>
  /\ UNCHANGED <<cfg, txExecuted, validator, paper, now, opens, dryRun>>

SimNext == \E u \in SimUDraws, r \in SimRDraws : SimulatePrice(u, r)

SimSpec == SimInit /\ [][SimNext]_vars

----------------------------------------------------------------------------
(* EnvTestValidator.  Amounts of QUOTE_AMOUNT in 1/100000 SOL, percentages *)
(* as integers, the wallet balance in lamports.                            *)

\* the five numeric trade settings as parseFloat(process.env.X || '0') reads them
TradeProfiles ==
  { [quoteAmount |-> 100, buySlippage |-> 20, sellSlippage |-> 20,
     takeProfit |-> 40, stopLoss |-> 20],
    [quoteAmount |-> 100000, buySlippage |-> 50, sellSlippage |-> 50,
     takeProfit |-> 500, stopLoss |-> 80],
    [quoteAmount |-> 0, buySlippage |-> 0, sellSlippage |-> 0,
     takeProfit |-> 0, stopLoss |-> 0] }

\* the .env file of a validate() call and whether the file runs as the main module
Envs ==
  [exists : BOOLEAN, main : BOOLEAN,
   privateKey : {"", "invalid", "valid"},
   rpc : {"undefined", "devnet", "mainnet", "other"},
   ws : {"undefined", "devnet", "mainnet"},
   trade : TradeProfiles,
   txExecutor : {"undefined", "default", "warp"},
   checkBurned : BOOLEAN, checkRenounced : BOOLEAN, checkSocials : BOOLEAN]

\* connection.getBalance resolves with a number of lamports
Lamports == {0, 2000000000}

\* this.result.errors.push(msg); this.result.valid = false
PushError(res, msg) == [res EXCEPT !.errors = Append(@, msg), !.valid = FALSE]

\* this.result.warnings.push(msg)
PushWarning(res, msg) == [res EXCEPT !.warnings = Append(@, msg)]

\* this.result.info.push(msg)
PushInfo(res, msg) == [res EXCEPT !.info = Append(@, msg)]

ValidatePrivateKey(res, e) ==
  IF e.privateKey = "" THEN PushError(res, "PRIVATE_KEY is empty")
  ELSE IF e.privateKey = "valid"
    THEN PushInfo(PushInfo(res, "PRIVATE_KEY is valid"), "Wallet Address")
  ELSE PushError(res, "PRIVATE_KEY is invalid")

ValidateNetwork(res, e) ==
  LET r1 == IF e.rpc = "devnet" THEN PushInfo(res, "Using DEVNET")
            ELSE IF e.rpc = "mainnet" THEN PushError(res, "Using MAINNET")
            ELSE PushWarning(res, "Unknown network")
  IN IF e.ws = "devnet" THEN PushInfo(r1, "WebSocket using DEVNET")
     ELSE IF e.ws = "mainnet" THEN PushError(r1, "WebSocket using MAINNET")
     ELSE r1

\* one three-way range check: a warning above hi or below lo, an info otherwise
RangeCheck(res, name, tooHigh, tooLow) ==
  IF tooHigh THEN PushWarning(res, name \o " is high")
  ELSE IF tooLow THEN PushWarning(res, name \o " is low")
  ELSE PushInfo(res, name \o " is reasonable")

ValidateTradeSettings(res, e) ==
  LET t == e.trade
      r1 == RangeCheck(res, "QUOTE_AMOUNT", t.quoteAmount > 1000, t.quoteAmount < 1)
      r2 == RangeCheck(r1, "BUY_SLIPPAGE", t.buySlippage > 30, t.buySlippage < 1)
      r3 == RangeCheck(r2, "SELL_SLIPPAGE", t.sellSlippage > 30, t.sellSlippage < 1)
      r4 == IF t.takeProfit < 10 THEN PushWarning(r3, "TAKE_PROFIT is low")
            ELSE IF t.takeProfit > 200 THEN PushWarning(r3, "TAKE_PROFIT is high")
            ELSE PushInfo(r3, "TAKE_PROFIT is reasonable")
      r5 == IF t.stopLoss < 5 THEN PushWarning(r4, "STOP_LOSS is low")
            ELSE IF t.stopLoss > 50 THEN PushWarning(r4, "STOP_LOSS is high")
            ELSE PushInfo(r4, "STOP_LOSS is reasonable")
  IN IF e.txExecutor = "default" THEN PushInfo(r5, "Using default executor")
     ELSE IF e.txExecutor = "warp" THEN PushWarning(r5, "Using warp executor")
     ELSE r5

ValidateSafetySettings(res, e) ==
  LET r1 == IF e.checkBurned THEN PushInfo(res, "Checking if liquidity is burned")
            ELSE PushWarning(res, "Not checking if liquidity is burned")
      r2 == IF e.checkRenounced THEN PushInfo(r1, "Checking if mint is renounced")
            ELSE PushWarning(r1, "Not checking if mint is renounced")
  IN IF e.checkSocials THEN PushInfo(r2, "Checking for social links") ELSE r2

\* validateWalletFunds up to its await: where the call stands afterwards
WalletFundsPosition(e) ==
  IF e.privateKey = "" \/ e.rpc = "undefined" THEN "done"     \* early return
  ELSE IF e.privateKey = "invalid" THEN "done"                \* getWallet throws, caught
  ELSE "awaiting"                                             \* await connection.getBalance

\* validateWalletFunds up to its await: what it has pushed by then
WalletFundsStart(res, e) ==
  IF e.privateKey = "" \/ e.rpc = "undefined" THEN res
  ELSE IF e.privateKey = "invalid"
    THEN PushWarning(res, "Could not check wallet balance")
  ELSE res

\* validate(envPath): the function has no await, so it runs to its return in
\* one turn; validateWalletFunds() is called without await
Validate(e) ==
  /\ env = <<>>
  /\ env' = <<e>>
  /\ IF ~e.exists
       THEN /\ result' = PushError(result, ".env.test file not found")
            /\ walletFunds' = "idle"
            /\ printed' = <<>>
       ELSE /\ result' =
                 WalletFundsStart(
                   ValidateSafetySettings(
                     ValidateTradeSettings(
                       ValidateNetwork(ValidatePrivateKey(result, e), e), e), e), e)
            /\ walletFunds' = WalletFundsPosition(e)
            /\ printed' = <<result'>>
  /\ resolved' = <<result'>>
  /\ UNCHANGED <<cfg, txExecuted, paper, now, opens, log, dryRun, exitCode>>

\* the runner's then-callback: process.exit(result.valid ? 0 : 1)
Exit ==
  /\ env # <<>>
  /\ env[1].main
  /\ exitCode = <<>>
  /\ exitCode' = <<IF result.valid THEN 0 ELSE 1>>
  /\ UNCHANGED <<cfg, txExecuted, paper, now, opens, log, dryRun,
                 env, result, walletFunds, printed, resolved>>

\* await connection.getBalance(wallet.publicKey) resumes with the balance
WalletFundsResolves(balance) ==
  /\ walletFunds = "awaiting"
  /\ ~env[1].main
  /\ walletFunds' = "done"
  /\ result' =
       IF balance < 10000000
         THEN PushWarning(PushWarning(result, "Low SOL balance"), "Get devnet SOL")
         ELSE PushInfo(result, "SOL balance")
  /\ UNCHANGED <<cfg, txExecuted, paper, now, opens, log, dryRun,
                 env, printed, resolved, exitCode>>

\* await connection.getBalance(wallet.publicKey) rejects: the catch block
WalletFundsRejects ==
  /\ walletFunds = "awaiting"
  /\ ~env[1].main
  /\ walletFunds' = "done"
  /\ result' = PushWarning(result, "Could not check wallet balance")
  /\ UNCHANGED <<cfg, txExecuted, paper, now, opens, log, dryRun,
                 env, printed, resolved, exitCode>>

ValidatorInit == Init /\ cfg \in SimConfigs

ValidatorNext ==
  \/ \E e \in Envs : Validate(e)
  \/ Exit
  \/ \E balance \in Lamports : WalletFundsResolves(balance)
  \/ WalletFundsRejects

ValidatorSpec == ValidatorInit /\ [][ValidatorNext]_vars

----------------------------------------------------------------------------
(* Vocabulary of the properties *)

BuyIndices(trades) == {i \in 1..Len(trades) : trades[i].action = "buy"}

SellIndices(trades) == {i \in 1..Len(trades) : trades[i].action = "sell"}

\* the Sell records whose id is "sell_" + id
SettlementsOf(trades, id) == {j \in 1..Len(trades) : trades[j].id = SellId(id)}

Matched(trades, id) == SettlementsOf(trades, id) # {}

UnmatchedBuys(trades, m) ==
  {i \in BuyIndices(trades) : trades[i].token = m /\ ~Matched(trades, trades[i].id)}

RECURSIVE SumQuote(_, _)
SumQuote(trades, S) ==
  IF S = {} THEN 0
  ELSE LET i == CHOOSE x \in S : TRUE IN
       trades[i].quoteAmount + SumQuote(trades, S \ {i})

RECURSIVE SumProfit(_, _)
SumProfit(trades, S) ==
  IF S = {} THEN 0
  ELSE LET i == CHOOSE x \in S : TRUE IN
       trades[i].profit + SumProfit(trades, S \ {i})

LogHas(l, msg) == \E i \in 1..Len(l) : l[i].msg = msg

LogCount(l, msg) == Cardinality({i \in 1..Len(l) : l[i].msg = msg})

\* a step in which executePaperBuy runs
OpenAttempt ==
  \/ \E m \in PoolMints : BuyScript(m)
  \/ \E c \in DOMAIN pending : cfg.useSnipeList /\ BuyAfterMarket(c, TRUE)
  \/ \E c \in DOMAIN pending : BuyAfterFilter(c, TRUE)

\* a step in which a Close is attempted for mint m: the timer of one of its
\* Buys fires, or an external sell event arrives for it
CloseAttempt(m) ==
  \/ \E tm \in timers : tm.token = m /\ TimerFires(tm)
  \/ SellScript(m)
  \/ SellModule(m)

----------------------------------------------------------------------------
(* C1: for every Buy id b, the trade ledger holds at most one Sell record  *)
(* whose id is "sell_" + b.                                                 *)
AtMostOneSettlement ==
  \A i \in BuyIndices(paperTrades) :
    Cardinality(SettlementsOf(paperTrades, paperTrades[i].id)) <= 1

(* C2: with auto-sell enabled and every armed timer eventually firing,      *)
(* every Buy record is eventually matched by a Sell with the derived id.    *)
(* Buys are told apart by the counter value in their id.                    *)
BuyNumbered(n) ==
  \E i \in BuyIndices(paperTrades) : paperTrades[i].id[2] = n

SettledNumbered(n) ==
  \E i \in BuyIndices(paperTrades) :
    paperTrades[i].id[2] = n /\ Matched(paperTrades, paperTrades[i].id)

ExactlyOnceSettlement ==
  \A n \in 1..MaxOpens :
    (cfg.autoSell /\ BuyNumbered(n)) ~> SettledNumbered(n)

(* C3: with one position open for an asset, a Close attempt appends exactly *)
(* one Sell, adds its profit to the running total once and removes the      *)
(* Balance entry; a Close attempt for an asset without a Balance entry (the *)
(* second of two invocations) leaves balances, trade ledger and counters    *)
(* unchanged.                                                               *)
OnePositionOpen(m) ==
  Has(paperBalances, m) /\ Cardinality(UnmatchedBuys(paperTrades, m)) = 1

IdempotentClose ==
  [][\A m \in Mints :
       CloseAttempt(m) =>
         /\ OnePositionOpen(m) =>
              /\ Len(paperTrades') = Len(paperTrades) + 1
              /\ SubSeq(paperTrades', 1, Len(paperTrades)) = paperTrades
              /\ paperTrades'[Len(paperTrades')].action = "sell"
              /\ paperTrades'[Len(paperTrades')].token = m
              /\ totalPaperProfit' =
                   totalPaperProfit + paperTrades'[Len(paperTrades')].profit
              /\ ~Has(paperBalances', m)
              /\ tradeCounter' = tradeCounter
         /\ ~Has(paperBalances, m) => UNCHANGED ledgers]_vars

\* a position was opened and closed once, and a further Close attempt for it
\* was turned away
IdempotentCloseWitness ==
  /\ log = <<LogCannotSell>>
  /\ Cardinality(BuyIndices(paperTrades)) = 1
  /\ Cardinality(SellIndices(paperTrades)) = 1
  /\ \A m \in Mints : ~Has(paperBalances, m)

(* C4: initialQuoteBalance - currentQuoteBalance + (sum of quoteAmount over *)
(* all Sell records) equals the sum of quoteAmount over all Buy records.    *)
LedgerConservation ==
  initialBalance - QuoteBalance(paperBalances, InitialEntry(cfg).key)
    + SumQuote(paperTrades, SellIndices(paperTrades))
  = SumQuote(paperTrades, BuyIndices(paperTrades))

NoOverdraw ==
  \A k \in DOMAIN paperBalances : paperBalances[k].amount >= 0

\* an Open spent the whole quote balance while another was in flight, and the
\* other one was then rejected
NoOverdrawWitness ==
  /\ cfg.impl = "module"
  /\ log = <<LogInsufficient>>
  /\ Has(paperBalances, QuoteKey(cfg))
  /\ paperBalances[QuoteKey(cfg)].amount = 0
  /\ opens = 2
  /\ Cardinality(BuyIndices(paperTrades)) = 1
  /\ SellIndices(paperTrades) = {}

(* C7: totalPaperProfit equals the sum of the profit field over all Sell    *)
(* records in the trade ledger.                                             *)
TotalProfitRecomputable ==
  totalPaperProfit = SumProfit(paperTrades, SellIndices(paperTrades))

\* two settlements, one at a loss and one at a gain
TotalProfitWitness ==
  /\ \E i \in SellIndices(paperTrades) : paperTrades[i].profit < 0
  /\ \E i \in SellIndices(paperTrades) : paperTrades[i].profit > 0
  /\ totalPaperProfit # 0

(* C8: tradeCounter equals the number of Buy records in the trade ledger,   *)
(* also after Open attempts that were rejected or failed.                   *)
TradeCounterRecomputable ==
  tradeCounter = Cardinality(BuyIndices(paperTrades))

(* C9: a non-quote asset has a Balance entry with positive quantity if and  *)
(* only if the trade ledger holds a Buy for it that is not matched by its   *)
(* derived Sell.                                                            *)
PositionBalanceCorrespondence ==
  \A m \in Mints :
    (Has(paperBalances, m) /\ paperBalances[m].amount > 0)
      <=> UnmatchedBuys(paperTrades, m) # {}

(* C10: a Close attempt leaves balances, trade ledger and total profit      *)
(* unchanged whenever the asset has no Balance entry or the targeted Buy is *)
(* already matched by a Sell.                                               *)
CloseGuard ==
  [][/\ \A tm \in timers :
          (/\ TimerFires(tm)
           /\ \/ ~Has(paperBalances, tm.token)
              \/ Matched(paperTrades, tm.buyId))
          => UNCHANGED <<paperBalances, paperTrades, totalPaperProfit>>
     /\ \A m \in Mints :
          (/\ SellScript(m) \/ SellModule(m)
           /\ \/ ~Has(paperBalances, m)
              \/ UnmatchedBuys(paperTrades, m) = {})
          => UNCHANGED <<paperBalances, paperTrades, totalPaperProfit>>]_vars

\* the last record of a non-empty ledger
Last(trades) == trades[Len(trades)]

\* a step in which executePaperBuy ran to its success log
SuccessfulOpen == OpenAttempt /\ LogHas(log', "BUY executed")

\* a step in which an external sell event for mint m arrives
ExternalSell(m) == SellScript(m) \/ SellModule(m)

(* C11: an external sell event for an asset that settles a Buy settles the  *)
(* earliest-recorded Buy of that asset with no Sell of its derived id; a    *)
(* Buy that already has a Sell is never selected.                           *)
ExternalCloseTargetsOldestUnmatched ==
  [][\A m \in Mints :
       (ExternalSell(m) /\ Len(paperTrades') > Len(paperTrades)) =>
         /\ UnmatchedBuys(paperTrades, m) # {}
         /\ Last(paperTrades').id =
              SellId(paperTrades[FirstIndex(UnmatchedBuys(paperTrades, m))].id)]_vars

(* C12: a successful Open with simulated price p debits the quote balance   *)
(* by exactly the fixed buy amount, leaves the asset with quantity amount/p *)
(* and appends exactly one Buy with quoteAmount = amount, price = p and     *)
(* tokenAmount = amount/p; with balance 1.0, amount 0.05 and p = 0.0005 the *)
(* balance becomes 0.95 and the quantity 100.                               *)
OpenResult ==
  [][SuccessfulOpen =>
       LET key == QuoteKey(cfg)
           b == Last(paperTrades')
       IN
       /\ Len(paperTrades') = Len(paperTrades) + 1
       /\ SubSeq(paperTrades', 1, Len(paperTrades)) = paperTrades
       /\ b.action = "buy"
       /\ b.quoteAmount = cfg.quoteAmount
       /\ b.price \in Prices
       /\ b.tokenAmount * b.price = cfg.quoteAmount
       /\ paperBalances'[key].amount = paperBalances[key].amount - cfg.quoteAmount
       /\ Has(paperBalances', b.token)
       /\ paperBalances'[b.token].amount * b.price = cfg.quoteAmount
       /\ TokenAmount(5000, 50) = 100
       /\ Debit("SOL" :> [amount |-> 100000], "SOL", 5000)["SOL"].amount = 95000]_vars

\* an Open at the lower price has just succeeded
OpenResultWitness ==
  /\ LogHas(log, "BUY executed")
  /\ paperTrades # <<>>
  /\ Last(paperTrades).action = "buy"
  /\ Last(paperTrades).price = 50
  /\ Last(paperTrades).tokenAmount = 2000
  /\ Has(paperBalances, Last(paperTrades).token)

(* C13: after a successful Open the asset's quantity equals its quantity    *)
(* before the Open (0 if it had no entry) plus quoteAmount / price, also    *)
(* when the asset already has an open position.                             *)
CreditAdditive ==
  [][SuccessfulOpen =>
       LET b == Last(paperTrades')
           before == IF Has(paperBalances, b.token)
                       THEN paperBalances[b.token].amount ELSE 0
       IN
       paperBalances'[b.token].amount = before + b.quoteAmount \div b.price]_vars

(* C14: an effective Close of Buy b with multiplier m appends a Sell with   *)
(* price = b.price * m, quoteAmount = netProceeds = assetQuantity * b.price *)
(* * m * (1 - slippage/100), profit = netProceeds - b.quoteAmount and       *)
(* profitPercent = profit / b.quoteAmount * 100, credits the quote balance  *)
(* by exactly netProceeds and removes the asset's Balance entry; with       *)
(* quantity 100, price 0.0005, m = 1.5 and slippage 2 the net proceeds are  *)
(* 0.0735, the profit 0.0235 (47%) and the balance goes from 0.95 to 1.0235.*)
CloseResult ==
  [][\A m \in Mints :
       (CloseAttempt(m) /\ LogHas(log', "SELL executed")) =>
         LET s == Last(paperTrades')
             key == QuoteKey(cfg)
             assetQuantity == paperBalances[m].amount
         IN
         /\ Len(paperTrades') = Len(paperTrades) + 1
         /\ SubSeq(paperTrades', 1, Len(paperTrades)) = paperTrades
         /\ s.action = "sell"
         /\ s.token = m
         /\ \E i \in BuyIndices(paperTrades) :
              LET b == paperTrades[i] IN
              /\ s.id = SellId(b.id)
              /\ \E u \in UDraws, r \in RDraws :
                   s.price * 100 = b.price * SimulatePriceMovement(cfg.impl, u, r)
              /\ s.quoteAmount * 100 =
                   assetQuantity * s.price * (100 - cfg.sellSlippage)
              /\ s.profit = s.quoteAmount - b.quoteAmount
              /\ s.profitPercent * (b.quoteAmount \div 100) = s.profit * 100
         /\ paperBalances'[key].amount = paperBalances[key].amount + s.quoteAmount
         /\ ~Has(paperBalances', m)
         /\ NewPrice(50, 150) = 75
         /\ FinalQuoteAmount(100, 50, 150, 2) = 7350
         /\ ProfitPercent(7350 - 5000, 5000) = 4700
         /\ Settle(("SOL" :> [amount |-> 95000]) @@ ("mintA" :> [amount |-> 100]),
                   "SOL", "mintA", 7350)
              = ("SOL" :> [amount |-> 102350])]_vars

\* a position has just been closed at a gain under 2% slippage
CloseResultWitness ==
  /\ LogHas(log, "SELL executed")
  /\ cfg.sellSlippage = 2
  /\ paperTrades # <<>>
  /\ Last(paperTrades).action = "sell"
  /\ Last(paperTrades).profit > 0
  /\ ~Has(paperBalances, Last(paperTrades).token)

(* C15: the reported win rate equals (number of Sell records with profit    *)
(* > 0) / (number of Sell records) * 100 computed from the raw trade ledger *)
(* and is 0 when there are no Sell records; a Sell with profit exactly 0    *)
(* does not count as a win.  The report is the summary or the result object *)
(* the most recent handler produced; rates are compared to the nearest      *)
(* hundredth of a percent.                                                  *)
RateIs(rate, wins, sells) ==
  IF sells = 0
    THEN rate = 0
    ELSE /\ 2 * (rate * sells - wins * 10000) <= sells
         /\ 2 * (wins * 10000 - rate * sells) <= sells

LedgerWinRateIs(rate, trades) ==
  LET sells == {i \in 1..Len(trades) : trades[i].action = "sell"}
      wins == {i \in sells : trades[i].profit > 0}
  IN RateIs(rate, Cardinality(wins), Cardinality(sells))

WinRateConsistent ==
  \A i \in 1..Len(log) :
    /\ log[i].msg = "PAPER TRADING SUMMARY" =>
         LedgerWinRateIs(log[i].winRate, paperTrades)
    /\ log[i].level = "return" =>
         LedgerWinRateIs(log[i].value.winRate,
                         IF cfg.impl = "dry" THEN tradingResults ELSE paperTrades)

\* a summary was printed over one flat settlement and one winning one
WinRateWitness ==
  /\ LogHas(log, "PAPER TRADING SUMMARY")
  /\ log[1].winRate = 5000
  /\ \E i \in SellIndices(paperTrades) : paperTrades[i].profit = 0
  /\ \E i \in SellIndices(paperTrades) : paperTrades[i].profit > 0

(* C16: printSummary, getPaperTradingResults and printPaperTradingSummary,  *)
(* invoked in any reachable state, leave every Balance entry, the trade     *)
(* ledger, totalPaperProfit, tradeCounter and the armed timers unchanged.   *)
ReportingPureRead ==
  [][(PrintSummary \/ GetPaperTradingResults \/ PrintPaperTradingSummary) =>
       UNCHANGED <<paperBalances, paperTrades, totalPaperProfit, tradeCounter,
                   timers>>]_vars

\* a summary was printed while a position was open and its timer armed
ReportingWitness ==
  /\ LogHas(log, "PAPER TRADING SUMMARY")
  /\ log[1].openPositions > 0
  /\ Len(paperTrades) >= 3
  /\ timers # {}

(* C17: across every transition the trade ledger before is a prefix of the  *)
(* trade ledger after: records are only appended, never changed or removed. *)
LedgerAppendOnly ==
  [][/\ Len(paperTrades') >= Len(paperTrades)
     /\ SubSeq(paperTrades', 1, Len(paperTrades)) = paperTrades]_vars

\* Buys and Sells were appended in turn
LedgerAppendOnlyWitness ==
  /\ Len(paperTrades) = 4
  /\ paperTrades[2].action = "sell"
  /\ paperTrades[3].action = "buy"

(* C18: every Sell record has id "sell_" + b.id for a Buy b of the same     *)
(* asset that appears earlier in the ledger; profit and profitPercent are   *)
(* present on every Sell and on no Buy.                                     *)
SellRecordsWellFormed ==
  \A j \in 1..Len(paperTrades) :
    LET t == paperTrades[j] IN
    IF t.action = "sell"
      THEN /\ \E i \in 1..(j - 1) :
                /\ paperTrades[i].action = "buy"
                /\ paperTrades[i].token = t.token
                /\ t.id = <<"sell">> \o paperTrades[i].id
           /\ {"profit", "profitPercent"} \subseteq DOMAIN t
      ELSE /\ t.action = "buy"
           /\ DOMAIN t \cap {"profit", "profitPercent"} = {}

\* two assets were bought and both settled
SellRecordsWitness ==
  /\ \E i \in SellIndices(paperTrades) : paperTrades[i].token = "mintA"
  /\ \E i \in SellIndices(paperTrades) : paperTrades[i].token = "mintB"

(* C19: a successful Open arms exactly one deferred Close, for the new Buy  *)
(* id, when auto-sell is enabled and none when it is disabled; a rejected   *)
(* or failed Open arms none.  With auto-sell disabled a Sell is only ever   *)
(* appended in response to an external sell event.                          *)
AutoSellArming ==
  [][/\ OpenAttempt =>
          IF LogHas(log', "BUY executed") /\ cfg.autoSell
            THEN \E tm \in timers' \ timers :
                   /\ timers' = timers \cup {tm}
                   /\ tm.buyId = Last(paperTrades').id
                   /\ tm.token = Last(paperTrades').token
            ELSE timers' = timers
     /\ (/\ ~cfg.autoSell
         /\ Len(paperTrades') > Len(paperTrades)
         /\ Last(paperTrades').action = "sell")
          => \E m \in Mints : ExternalSell(m)]_vars

\* two Opens succeeded with auto-sell enabled and each armed its own timer
AutoSellArmingWitness ==
  /\ cfg.autoSell
  /\ Cardinality(timers) = 2
  /\ \A i \in BuyIndices(paperTrades) :
       Cardinality({tm \in timers : tm.buyId = paperTrades[i].id}) = 1

(* C20: an exception raised while PaperTradingBot processes one Open or     *)
(* Close event never leaves that event's handler.                           *)
PerEventIsolation ==
  cfg.impl \in Impls => \A i \in 1..Len(log) : log[i].level # "throw"

(* C21: no Open, Close, timer firing or report of PaperTradingBot or        *)
(* DryRunBot hands a transaction to the executor of the base bot: every     *)
(* step leaves the executor untouched and the configuration as constructed. *)
NoRealExecution ==
  [][txExecuted' = txExecuted /\ txExecuted = 0 /\ cfg' = cfg]_vars

\* Opens, a Close and a report have all run
NoRealExecutionWitness ==
  /\ txExecuted = 0
  /\ opens = MaxOpens
  /\ \/ LogHas(log, "PAPER TRADING SUMMARY") /\ SellIndices(paperTrades) # {}
     \/ /\ cfg.impl = "dry"
        /\ LogHas(log, "results")
        /\ \E i \in 1..Len(tradingResults) : tradingResults[i].action = "sell"

----------------------------------------------------------------------------
\* a step that appends a Buy record
BuyAppended ==
  /\ Len(paperTrades') = Len(paperTrades) + 1
  /\ Last(paperTrades').action = "buy"

\* a step that lowers the amount of the Balance entry the Open spends from
QuoteDebited ==
  QuoteBalance(paperBalances', QuoteKey(cfg)) < QuoteBalance(paperBalances, QuoteKey(cfg))

\* the step runs executePaperBuy after the gate of the configuration passed
GatePassed ==
  IF cfg.useSnipeList
    THEN \E c \in DOMAIN pending : c.mint \in SnipeList /\ BuyAfterMarket(c, TRUE)
    ELSE \E c \in DOMAIN pending : BuyAfterFilter(c, TRUE)

\* the step ends an Open at a rejected gate or a missing market
GateRejected ==
  \/ \E m \in PoolMints : cfg.useSnipeList /\ m \notin SnipeList /\ BuyModule(m)
  \/ \E c \in DOMAIN pending : BuyAfterMarket(c, FALSE)
  \/ \E c \in DOMAIN pending : BuyAfterFilter(c, FALSE)

(* C22: a Buy is appended and the quote asset debited only in a step whose  *)
(* gate passed (snipe list membership when useSnipeList, a true filter      *)
(* match otherwise); a rejected gate or a missing market leaves balances,   *)
(* trade ledger, counters and timers unchanged.                             *)
GatedOpen ==
  [][/\ (BuyAppended \/ QuoteDebited) => GatePassed
     /\ GateRejected =>
          UNCHANGED <<paperBalances, paperTrades, totalPaperProfit, tradeCounter, timers>>]_vars

\* the same statement for the bot of src/unnamed/part_001 alone
GatedOpenModule ==
  [][cfg.impl = "module" =>
       /\ (BuyAppended \/ QuoteDebited) => GatePassed
       /\ GateRejected =>
            UNCHANGED <<paperBalances, paperTrades, totalPaperProfit, tradeCounter, timers>>]_vars

----------------------------------------------------------------------------
\* a step in which executePaperBuy runs for mint m
OpenFor(m) ==
  \/ BuyScript(m)
  \/ \E c \in DOMAIN pending : c.mint = m /\ cfg.useSnipeList /\ BuyAfterMarket(c, TRUE)
  \/ \E c \in DOMAIN pending : c.mint = m /\ BuyAfterFilter(c, TRUE)

\* the trade records of mint m, in ledger order
TradesOf(trades, m) == SelectSeq(trades, LAMBDA t : t.token = m)

\* the Balance entry of mint m: a set with at most one element
EntryOf(bal, m) == IF Has(bal, m) THEN {bal[m]} ELSE {}

\* the step appends a record to the trade ledger
Effective == Len(paperTrades') = Len(paperTrades) + 1

\* the step leaves the Balance entry and the trade records of every mint
\* other than a as they were
OthersUntouched(a) ==
  \/ UNCHANGED <<paperBalances, paperTrades>>
  \/ \A b \in Mints \ {a} :
       /\ EntryOf(paperBalances', b) = EntryOf(paperBalances, b)
       /\ TradesOf(paperTrades', b) = TradesOf(paperTrades, b)

(* C23: an Open or Close for asset A leaves the Balance entry and the trade *)
(* records of every other non-quote asset B unchanged, and whether a Close  *)
(* attempt for A is effective or a no-op is decided by A's own Balance      *)
(* entry and trade records alone.                                           *)
CrossAssetNonInterference ==
  [][cfg.impl \in Impls =>
       \A a \in Mints :
         /\ OthersUntouched(a) \/ ~(OpenFor(a) \/ CloseAttempt(a))
         /\ \/ timers' = timers
            \/ Effective <=> Has(paperBalances, a)
            \/ ~\E tm \in timers : tm.token = a /\ TimerFires(tm)
         /\ \/ Effective <=>
                 Has(paperBalances, a) /\ UnmatchedBuys(TradesOf(paperTrades, a), a) # {}
            \/ ~SellScript(a)
         /\ \/ Effective <=>
                 Has(paperBalances, a) /\ BuyIndices(TradesOf(paperTrades, a)) # {}
            \/ ~SellModule(a)]_vars

\* asset A was closed after asset B was opened, and B is still held
CrossAssetWitness ==
  \E a \in Mints : \E b \in Mints \ {a} :
    /\ Has(paperBalances, b)
    /\ \E i, j \in 1..Len(paperTrades) :
         /\ i < j
         /\ paperTrades[i].token = b /\ paperTrades[i].action = "buy"
         /\ paperTrades[j].token = a /\ paperTrades[j].action = "sell"

----------------------------------------------------------------------------
\* the keys of the Balance entries held for the quote asset
QuoteEntries(bal) == {k \in DOMAIN bal : bal[k].token = "quoteMint"}

(* C24: in every reachable state the Balance map holds exactly one entry    *)
(* for the quote asset, under the key it was created with, and at most one  *)
(* entry per asset identifier.                                              *)
QuoteEntryPresent ==
  cfg.impl \in Impls =>
    /\ QuoteEntries(paperBalances) = {InitialEntry(cfg).key}
    /\ Cardinality(QuoteEntries(paperBalances)) = 1
    /\ \A k1, k2 \in DOMAIN paperBalances :
         paperBalances[k1].token = paperBalances[k2].token => k1 = k2

\* a position was opened and settled, another is held, and the quote entry is there
QuoteEntryWitness ==
  /\ cfg.impl \in Impls
  /\ SellIndices(paperTrades) # {}
  /\ \E m \in Mints : Has(paperBalances, m)
  /\ Has(paperBalances, InitialEntry(cfg).key)
  /\ paperBalances[InitialEntry(cfg).key].amount # initialBalance

----------------------------------------------------------------------------
(* C25: no Balance entry with quantity exactly 0 exists in any reachable    *)
(* state: a debit that brings an entry to zero removes it, also for the     *)
(* quote entry of an Open that spends the whole balance.                    *)
ZeroRemoval ==
  cfg.impl \in Impls =>
    \A k \in DOMAIN paperBalances : paperBalances[k].amount # 0

----------------------------------------------------------------------------
\* the cumulative probability the loop holds after adding scenario i
RECURSIVE Cumulative(_, _)
Cumulative(sc, i) == IF i = 0 THEN 0 ELSE Cumulative(sc, i - 1) + sc[i].probability

\* the scenarios whose cumulative probability is >= u
Matching(sc, u) == {i \in 1..Len(sc) : u <= Cumulative(sc, i)}

\* the multiplier lies in the range of scenario i: lo + random * width, random < 1
InRange(sc, i, mult) == sc[i].lo <= mult /\ mult < sc[i].lo + sc[i].width

\* the call returned the multiplier of the first matching scenario, inside its range
FirstMatchReturned(sc, e) ==
  /\ Matching(sc, e.random) # {}
  /\ InRange(sc, FirstIndex(Matching(sc, e.random)), e.value)
  /\ e.value > 0
  /\ e.value = SimulatePriceMovement(cfg.impl, e.random, e.draw)

(* C26 as stated: the call returns, for its two draws, the multiplier of    *)
(* the first scenario whose cumulative probability is >= u, inside that     *)
(* scenario's range, and returns exactly 1 only when no scenario matches.   *)
SimulatorMappingAsStated ==
  \A n \in 1..Len(log) :
    log[n].msg = "multiplier" =>
      /\ log[n].level = "return"
      /\ Matching(Scenarios(cfg.impl), log[n].random) # {} =>
           /\ FirstMatchReturned(Scenarios(cfg.impl), log[n])
           /\ log[n].value # 100
      /\ Matching(Scenarios(cfg.impl), log[n].random) = {} => log[n].value = 100

(* C26, amended: the call never throws and returns, as a function of its    *)
(* two draws, a multiplier > 0 inside the range of the first scenario whose *)
(* cumulative probability is >= u; such a scenario exists for every draw,   *)
(* and its range may contain 1.                                             *)
SimulatorMapping ==
  \A n \in 1..Len(log) :
    log[n].msg = "multiplier" =>
      /\ log[n].level = "return"
      /\ FirstMatchReturned(Scenarios(cfg.impl), log[n])

\* a draw exactly on the boundary of the first bucket was mapped
SimulatorMappingWitness ==
  /\ Len(log) = 1
  /\ log[1].msg = "multiplier"
  /\ log[1].random = 400
  /\ log[1].draw = 1

----------------------------------------------------------------------------
\* the probabilities the scenario table is meant to realise, in thousandths
ConfiguredShares == <<400, 300, 200, 100>>

\* the number of uniform draws of the grid (out of 1000) that
\* simulatePriceMovement maps to scenario i, recognised by the lower end of
\* its range
Share(impl, i) ==
  Cardinality({u \in SimUDraws :
                 SimulatePriceMovement(impl, u, 0) = Scenarios(impl)[i].lo})

(* C27: the scenario probabilities sum to 1.0, and the share of uniform     *)
(* draws mapped to each bucket is its configured probability (0.4, 0.3,     *)
(* 0.2, 0.1) within 1% absolute error.                                      *)
ScenarioTableSound ==
  LET sc == Scenarios(cfg.impl) IN
  /\ Len(sc) = Len(ConfiguredShares)
  /\ Cumulative(sc, Len(sc)) = 1000
  /\ \A i \in 1..Len(sc) :
       /\ sc[i].probability = ConfiguredShares[i]
       /\ Share(cfg.impl, i) - ConfiguredShares[i] \in -10..10

\* the largest draw of the grid was mapped to the last bucket of the script
ScenarioTableWitness ==
  /\ cfg.impl = "script"
  /\ Len(log) = 1
  /\ log[1].msg = "multiplier"
  /\ log[1].random = 999
  /\ InRange(Scenarios(cfg.impl), 4, log[1].value)

----------------------------------------------------------------------------
\* the largest jitter setTimeout can be armed with
JitterBound(impl) == CHOOSE j \in Jitters(impl) : \A k \in Jitters(impl) : k <= j

\* the timers whose callback runs in this step
Fired == {tm \in timers \ timers' : TimerFires(tm)}

\* a Sell recorded by this step carries a timestamp at least the configured
\* delay after the Buy of the fired timer
SellAfterDelay(tm) ==
  Effective =>
    Last(paperTrades').timestamp >=
      paperTrades[FindBuyTrade(paperTrades, tm.buyId)].timestamp + cfg.autoSellDelay

(* C28 as stated: the deferred Close armed for a Buy fires no earlier than  *)
(* configuredDelay and no later than configuredDelay + jitterBound after    *)
(* the Open that armed it, and no timer-driven Sell is recorded before      *)
(* configuredDelay has elapsed since the Buy.                               *)
AutoSellDelayBoundsAsStated ==
  [][\A tm \in Fired :
       /\ now >= tm.armedAt + cfg.autoSellDelay
       /\ now <= tm.armedAt + cfg.autoSellDelay + JitterBound(cfg.impl)
       /\ SellAfterDelay(tm)]_vars

(* C28, amended: the deferred Close is armed with a delay between           *)
(* configuredDelay and configuredDelay + jitterBound and fires no earlier   *)
(* than the delay it was armed with (it may fire later); no timer-driven    *)
(* Sell is recorded before configuredDelay has elapsed since the Buy.       *)
AutoSellDelayBounds ==
  [][\A tm \in Fired :
       /\ tm.due - tm.armedAt \in
            cfg.autoSellDelay .. cfg.autoSellDelay + JitterBound(cfg.impl)
       /\ now >= tm.due
       /\ now >= tm.armedAt + cfg.autoSellDelay
       /\ SellAfterDelay(tm)]_vars

\* the timer of the only Buy has just fired and recorded its Sell
AutoSellDelayWitness ==
  /\ cfg.impl \in Impls
  /\ cfg.autoSell
  /\ timers = {}
  /\ Len(paperTrades) = 2
  /\ paperTrades[1].action = "buy"
  /\ paperTrades[2].id = SellId(paperTrades[1].id)
  /\ paperTrades[2].timestamp >= paperTrades[1].timestamp + cfg.autoSellDelay
  /\ LogHas(log, "SELL executed")

----------------------------------------------------------------------------
\* the sell records of the DryRunBot
DrySellIndices(results) == {i \in 1..Len(results) : results[i].action = "sell"}

(* C29: the cached totalProfit of the DryRunBot equals the sum of the       *)
(* profit values carried by its sell records.                               *)
DryTotalProfitRecomputable ==
  cfg.impl = "dry" =>
    totalProfit = SumProfit(tradingResults, DrySellIndices(tradingResults))

----------------------------------------------------------------------------
\* no Open has debited and no trade is recorded yet
FreshBook == tradeCounter = 0 /\ paperTrades = <<>>

\* every balance a report of this step shows is b
ReportsBalance(l, b) ==
  \A i \in 1..Len(l) :
    /\ l[i].msg = "PAPER TRADING SUMMARY" => l[i].currentBalance = b
    /\ l[i].msg = "results" => l[i].value.currentBalance = b

(* C30: for every quote symbol (SOL, USDC, WSOL, none) the key the initial  *)
(* Balance entry is stored under is the key Opens and reports look up: the  *)
(* first Open with initial balance >= the configured amount is not          *)
(* rejected, and a report before any trade shows the initial balance.       *)
QuoteKeyConsistent ==
  [][cfg.impl \in Impls =>
       /\ Has(paperBalances, QuoteKey(cfg))
       /\ (FreshBook /\ OpenAttempt /\ initialBalance >= cfg.quoteAmount) =>
            ~LogHas(log', "Insufficient balance for buy")
       /\ (FreshBook
             /\ (PrintSummary \/ GetPaperTradingResults \/ PrintPaperTradingSummary)) =>
            ReportsBalance(log', initialBalance)]_vars

----------------------------------------------------------------------------
(* C31: an Open attempt that passes the funds check and then fails with an  *)
(* exception leaves the quote balance, the trade counter, the balance       *)
(* ledger and the trade ledger as they were; a quote debit never exists     *)
(* without its Buy record.                                                  *)
OpenAllOrNothing ==
  [][cfg.impl \in Impls =>
       /\ (OpenAttempt /\ LogHas(log', "Failed to execute paper buy")) =>
            UNCHANGED <<paperBalances, paperTrades, totalPaperProfit, tradeCounter>>
       /\ QuoteDebited => BuyAppended]_vars

----------------------------------------------------------------------------
(* C32: every Sell record with id "sell_" + b.id carries the tokenAmount of *)
(* the Buy b it settles.                                                    *)
SettledQuantityMatchesBuy ==
  cfg.impl \in Impls =>
    \A i \in BuyIndices(paperTrades) :
      \A j \in SettlementsOf(paperTrades, paperTrades[i].id) :
        paperTrades[j].tokenAmount = paperTrades[i].tokenAmount

----------------------------------------------------------------------------
\* the Buys of any asset with no Sell of their derived id
AllUnmatchedBuys(trades) ==
  {i \in BuyIndices(trades) : ~Matched(trades, trades[i].id)}

(* C33: the current quote balance equals the initial quote balance plus     *)
(* totalPaperProfit minus the sum of quoteAmount over the unmatched Buys;   *)
(* with no position open the difference to the initial balance is           *)
(* totalPaperProfit.                                                        *)
FlatBookAccounting ==
  cfg.impl \in Impls =>
    LET current == QuoteBalance(paperBalances, InitialEntry(cfg).key) IN
    /\ current = initialBalance + totalPaperProfit
                   - SumQuote(paperTrades, AllUnmatchedBuys(paperTrades))
    /\ (\A m \in Mints : ~Has(paperBalances, m)) =>
         current - initialBalance = totalPaperProfit

\* the same statement in behaviours without a failed Open
FlatBookAccountingWellFormed ==
  (cfg.impl \in Impls /\ tradeCounter = Cardinality(BuyIndices(paperTrades))) =>
    QuoteBalance(paperBalances, InitialEntry(cfg).key)
      = initialBalance + totalPaperProfit
          - SumQuote(paperTrades, AllUnmatchedBuys(paperTrades))

----------------------------------------------------------------------------
\* the number of records of mint m with the given action
CountOf(trades, m, action) ==
  Cardinality({i \in 1..Len(trades) : trades[i].token = m /\ trades[i].action = action})

\* every report in the log shows completed trades <= opportunities
ReportsCompletedWithinTotal(l) ==
  \A i \in 1..Len(l) :
    /\ l[i].msg = "PAPER TRADING SUMMARY" => l[i].completed <= l[i].totalTrades
    /\ l[i].msg = "results" => l[i].value.completedTrades <= l[i].value.totalTrades

(* C34: in PaperTradingBot, for every asset the number of Sell records is   *)
(* at most the number of Buy records, and a report never shows more         *)
(* completed trades than opportunities.                                     *)
SellsWithinBuys ==
  cfg.impl \in Impls =>
    /\ \A m \in Mints : CountOf(paperTrades, m, "sell") <= CountOf(paperTrades, m, "buy")
    /\ Cardinality(SellIndices(paperTrades)) <= Cardinality(BuyIndices(paperTrades))
    /\ ReportsCompletedWithinTotal(log)

\* every Open of an asset opened twice has been closed, and a report shows it
SellsWithinBuysWitness ==
  /\ cfg.impl \in Impls
  /\ \E m \in Mints :
       /\ CountOf(paperTrades, m, "buy") = 2
       /\ CountOf(paperTrades, m, "sell") = 2
  /\ \E i \in 1..Len(log) :
       /\ log[i].msg = "PAPER TRADING SUMMARY"
       /\ log[i].completed = 2
       /\ log[i].totalTrades = 2

----------------------------------------------------------------------------
(* C35: in DryRunBot, for every token the number of sell records is at most *)
(* the number of buy records, and getResults never returns more completed   *)
(* trades than total trades.                                                *)
DrySellsWithinBuys ==
  cfg.impl = "dry" =>
    /\ \A m \in Mints \cup FakeMints :
         CountOf(tradingResults, m, "sell") <= CountOf(tradingResults, m, "buy")
    /\ \A i \in 1..Len(log) :
         log[i].msg = "results" => log[i].value.completedTrades <= log[i].value.totalTrades

----------------------------------------------------------------------------
(* C36: all Buy records have pairwise distinct ids, also when Opens are     *)
(* processed within the same clock tick, so that a Buy id identifies one    *)
(* position and no Sell id is a Buy id.                                     *)
TradeIdsUnique ==
  cfg.impl \in Impls =>
    /\ \A i, j \in BuyIndices(paperTrades) :
         paperTrades[i].id = paperTrades[j].id => i = j
    /\ \A i \in BuyIndices(paperTrades) : \A j \in SellIndices(paperTrades) :
         paperTrades[i].id # paperTrades[j].id

\* two Opens were recorded within one clock tick
TradeIdsUniqueWitness ==
  /\ cfg.impl \in Impls
  /\ \E i, j \in BuyIndices(paperTrades) :
       i # j /\ paperTrades[i].timestamp = paperTrades[j].timestamp

----------------------------------------------------------------------------
(* C37: when printResults runs and when the promise of validate() resolves, *)
(* every validation has finished, so the result printed and the result      *)
(* delivered hold all the messages the call records; and result.valid is    *)
(* false exactly when result.errors is non-empty.                           *)
ValidateCompletesEveryCheck ==
  /\ resolved # <<>> =>
       /\ walletFunds # "awaiting"
       /\ resolved = <<result>>
       /\ env[1].exists => printed = <<result>>
  /\ result.valid <=> result.errors = <<>>

\* the second half of C37 on its own
ValidIffNoErrors == result.valid <=> result.errors = <<>>

====
